---- MODULE Spec2Model ----
(***************************************************************************)
(* beatlabs/github-auth: the credential lifecycle of a GitHub App and of   *)
(* its installations.                                                      *)
(*                                                                         *)
(*   jwt.JWT.Payload / jwt.transport.RoundTrip   (src/jwt/jwt.go)          *)
(*   jwt.Config.TokenSource / Client, jwtSource.Token (src/jwt/config.go)  *)
(*   inst.Config.SetRepositories / SetRepositoryIDs   (src/unnamed/part_001)*)
(*                                                                         *)
(* The token cache is golang.org/x/oauth2's reuseTokenSource, which        *)
(* Config.TokenSource wraps around jwtSource; the installation transport   *)
(* is oauth2.Transport, which Config.Client builds.  Both are modelled as  *)
(* the calls in src/jwt/config.go use them.                                *)
(*                                                                         *)
(* Time is counted in whole seconds.  The zero time.Time is instant 0 and  *)
(* the clock starts after it.  Strings that the code only compares or      *)
(* copies are TLA+ strings; a timestamp string is a record of what it      *)
(* spells, so that parsing it is a computation.                            *)
(***************************************************************************)
EXTENDS Integers, Sequences, FiniteSets, TLC

VARIABLES
    now,        \* the wall clock, time.Now(), in seconds
    conf,       \* the jwt.Config: AppID, PrivateKey, Expires, TokenURL
    repos,      \* conf.Repositories: [Names, IDs]
    ctxDone,    \* ctxDone[s]: the context given to TokenSource/Client s is cancelled
    cache,      \* cache[s]: reuseTokenSource.t of token source s
    mu,         \* mu[s]: reuseTokenSource.mu, 0 when free, else the caller holding it
    pc,         \* pc[c]: where caller c is
    call,       \* call[c]: what caller c invoked, on which source, and what it saw
    req,        \* req[c]: the POST caller c has in flight at the token endpoint
    result,     \* result[c]: what Token() returned to caller c
    sent,       \* sent[c]: the request the wrapped transport received from c
    posts,      \* number of POSTs sent to TokenURL so far
    out,        \* out[c]: what Permissions() / RepositorySelection() returned to c
    appReq,     \* appReq[r]: the header of request object r (App transport)
    appOut      \* what the last App RoundTrip handed on and returned

vars == <<now, conf, repos, ctxDone, cache, mu, pc, call, req, result, sent,
          posts, out, appReq, appOut>>

instVars == <<conf, repos, ctxDone, cache, mu, pc, call, req, result, sent, posts,
              out>>
appVars == <<appReq, appOut>>

----------------------------------------------------------------------------
(* Bounds of the model *)

NCallers == 2
NSources == 2
MaxTime == 13
MaxExchanges == 3
NReqs == 2
MaxDispatch == 2

Callers == 1..NCallers
Sources == 1..NSources
Reqs == 1..NReqs

(* Program constants *)

\* oauth2's defaultExpiryDelta: a token counts as expired this long before Expiry
expiryDelta == 10
\* io.LimitReader(resp.Body, 1<<20)
LimitBytes == 1048576
\* Expires: time.Minute * 10
TenMinutes == 600
\* the zero time.Time
ZeroTime == 0

----------------------------------------------------------------------------
(* Values *)

NoToken == [nil |-> TRUE]
NoErr == [nil |-> TRUE]
NoReq == [nil |-> TRUE]
NoBody == [nil |-> TRUE]
NoOut == [nil |-> TRUE]

\* JSON values of a response body
Absent == [j |-> "absent"]
JNull == [j |-> "null"]
JNum == [j |-> "number"]
JStr(s) == [j |-> "string", s |-> s]
JObj(m) == [j |-> "object", m |-> m]

\* Timestamp strings: the empty string, an RFC3339 date-time that spells the
\* local time `local` at UTC offset `off`, and a string that is no RFC3339 time.
EmptyStr == [txt |-> "empty"]
BadTime == [txt |-> "other"]
Stamp(local, off) == [txt |-> "rfc3339", local |-> local, off |-> off]

Keys == {"token", "expires_at", "TokenType", "repository_selection", "permissions"}

\* A body: a JSON document of `size` bytes.  kind is "object" (with the
\* top-level fields), "null", "array" or "invalid" (no JSON at all).
Object(tok, exp, typ, sel, size) ==
    [kind |-> "object",
     fields |-> [k \in Keys |->
                   CASE k = "token" -> tok
                     [] k = "expires_at" -> exp
                     [] k = "TokenType" -> typ
                     [] k = "repository_selection" -> sel
                     [] OTHER -> Absent],
     size |-> size]
\* The body with a "permissions" field
WithPermissions(body, p) == [body EXCEPT !.fields["permissions"] = p]
PlainBody(kind, size) ==
    [kind |-> kind, fields |-> [k \in Keys |-> Absent], size |-> size]

----------------------------------------------------------------------------
(* Signing: JWT.Payload *)

defaultHeader == [Algorithm |-> "RS256", Typ |-> "JWT"]

NoPayload == [nil |-> TRUE]

\* jws.Encode: header "." claims "." signature, the signature computed over
\* the first two segments with the private key; fails when the key cannot sign.
Encode(header, claimSet, key) ==
    IF key = "valid"
    THEN [payload |-> [header |-> header, claims |-> claimSet, signedBy |-> key],
          err |-> NoErr]
    ELSE [payload |-> NoPayload, err |-> [type |-> "SigningError"]]

\* (faulty variant) the claim set is built once, when the JWT is made (instant
\* 1), and kept
ClaimSetKept(j, t) ==
    [Iss |-> j.AppID, Exp |-> IF j.Expires > 0 THEN 1 + j.Expires ELSE 0]

\* The claim set of a signing at time t: Exp is set only when Expires > 0
\* (0 is the unset value of the field).
ClaimSetAt(j, t) ==
    [Iss |-> j.AppID, Exp |-> IF j.Expires > 0 THEN t + j.Expires ELSE 0]

Payload(j, t) ==
    LET e == Encode(defaultHeader, ClaimSetAt(j, t), j.PrivateKey)
    IN  IF e.err # NoErr
        THEN [payload |-> NoPayload, err |-> e.err]
        ELSE [payload |-> e.payload, err |-> NoErr]

\* "Bearer " + payload
Bearer(payload) == [scheme |-> "Bearer", cred |-> payload]

----------------------------------------------------------------------------
(* The exchange: jwtSource.Token *)

AcceptV3 == "application/vnd.github.v3+json"

GoodURL == "https://api.github.com/app/installations/7/access_tokens"
BadURL == "https://api.github.com/%zz"

\* http.NewRequest parses the URL
URLParses(u) == u # BadURL

\* json.NewEncoder(repos).Encode(js.conf.Repositories): a JSON object holding
\* each list under its key, an empty list omitted (omitempty).
EncodeRepositories(r) ==
    [k \in {x \in {"repositories", "repository_ids"} :
               IF x = "repositories" THEN r.Names # <<>> ELSE r.IDs # <<>>}
       |-> IF k = "repositories" THEN r.Names ELSE r.IDs]

\* What a server decoding a request body recovers: the lists under the two
\* keys, empty when the body is missing or does not hold the key.
DecodeRepositories(body) ==
    [Names |-> IF body # NoBody /\ "repositories" \in DOMAIN body
               THEN body["repositories"] ELSE <<>>,
     IDs |-> IF body # NoBody /\ "repository_ids" \in DOMAIN body
             THEN body["repository_ids"] ELSE <<>>]

Fail(e) == [tok |-> NoToken, err |-> e]
Ok(t) == [tok |-> t, err |-> NoErr]

\* Lines 67-82: the request jwtSource.Token builds at time t.  The encoded
\* repository list is written to the buffer `repos`, and the request is made
\* with a nil body.
BuildRequest(cf, rp, t) ==
    LET buf == EncodeRepositories(rp)
        p == Payload(cf, t)
    IN  IF ~URLParses(cf.TokenURL)
        THEN [req |-> NoReq, err |-> [type |-> "url.Error"]]
        ELSE IF p.err # NoErr
        THEN [req |-> NoReq, err |-> p.err]
        ELSE [req |-> [Method |-> "POST", URL |-> cf.TokenURL, Body |-> NoBody,
                       Accept |-> <<AcceptV3>>,
                       Authorization |-> <<Bearer(p.payload)>>],
              err |-> NoErr]

\* fmt.Errorf("oauth2: cannot fetch token: %v", err): a new error that
\* renders the cause
FetchError(cause) ==
    [type |-> "fmt.Errorf", text |-> <<"oauth2: cannot fetch token: ", cause>>]

\* io.ReadAll(io.LimitReader(resp.Body, 1<<20)): at most the first 1 MiB.  A
\* document cut short is no JSON document (bodies carry no trailing blanks).
ReadAll(body) ==
    IF body.size <= LimitBytes
    THEN body
    ELSE [body EXCEPT !.kind = "invalid", !.size = LimitBytes]

\* json.Unmarshal(body, &tokenRes): a field of the struct takes a JSON string,
\* is left "" by a missing or null value, and any other value is an error; the
\* document null leaves the struct untouched; anything but an object or null
\* is an error.
FieldDecodes(v) == v.j \in {"absent", "null", "string"}
StringField(v, zero) == IF v.j = "string" THEN v.s ELSE zero

UnmarshalTokenRes(body) ==
    LET zero == [AccessToken |-> "", ExpiresAt |-> EmptyStr, TokenType |-> "",
                 err |-> NoErr]
    IN  CASE body.kind = "null" -> zero
          [] body.kind = "object" ->
               IF \A k \in {"token", "expires_at", "TokenType"} :
                      FieldDecodes(body.fields[k])
               THEN [AccessToken |-> StringField(body.fields["token"], ""),
                     ExpiresAt |-> StringField(body.fields["expires_at"], EmptyStr),
                     TokenType |-> StringField(body.fields["TokenType"], ""),
                     err |-> NoErr]
               ELSE [zero EXCEPT !.err = [type |-> "json.UnmarshalTypeError"]]
          [] body.kind = "array" ->
               [zero EXCEPT !.err = [type |-> "json.UnmarshalTypeError"]]
          [] OTHER -> [zero EXCEPT !.err = [type |-> "json.SyntaxError"]]

\* The Go value json.Unmarshal stores in an interface{} for a JSON value
RECURSIVE GoValue(_)
GoValue(v) ==
    CASE v.j = "string" -> [go |-> "string", v |-> v.s]
      [] v.j = "number" -> [go |-> "float64"]
      [] v.j = "object" -> [go |-> "map[string]interface {}",
                            v |-> [k \in DOMAIN v.m |-> GoValue(v.m[k])]]
      [] OTHER -> [go |-> "nil"]

NoFields == [k \in {} |-> [go |-> "nil"]]

\* json.Unmarshal(body, &raw), its error dropped: every top-level field of an
\* object; nothing for any other document.
UnmarshalRaw(body) ==
    IF body.kind = "object"
    THEN [k \in {x \in Keys : body.fields[x] # Absent} |-> GoValue(body.fields[k])]
    ELSE NoFields

\* Token.Extra(key): raw[key], nil when the key is missing
Extra(t, key) == IF key \in DOMAIN t.raw THEN t.raw[key] ELSE [go |-> "nil"]

\* (faulty variant) a string that is no RFC3339 time is taken for no expiry
ParseRFC3339Lenient(s) ==
    IF s.txt = "rfc3339"
    THEN [t |-> s.local - s.off, err |-> NoErr]
    ELSE [t |-> ZeroTime, err |-> NoErr]

\* time.Parse(time.RFC3339, s): the instant the string spells
ParseRFC3339(s) ==
    IF s.txt = "rfc3339"
    THEN [t |-> s.local - s.off, err |-> NoErr]
    ELSE [t |-> ZeroTime, err |-> [type |-> "time.ParseError"]]

\* (faulty variant) the range test off by one at its lower end
NotSuccessFrom201(code) == code <= 200 \/ code > 299

\* c < 200 || c > 299
NotSuccess(code) == code < 200 \/ code > 299

\* (faulty variant) the token takes the type the response names
NewTokenTypeFromResponse(tokenRes, raw) ==
    [AccessToken |-> tokenRes.AccessToken,
     TokenType |-> IF tokenRes.TokenType = "" THEN "token" ELSE tokenRes.TokenType,
     Expiry |-> ZeroTime,
     raw |-> raw]

\* The oauth2.Token of lines 107-114: the access token, the type "token", no
\* expiry yet, and the decoded body as its extras (WithExtra)
NewToken(tokenRes, raw) ==
    [AccessToken |-> tokenRes.AccessToken,
     TokenType |-> "token",
     Expiry |-> ZeroTime,
     raw |-> raw]

\* Lines 83-122: what jwtSource.Token returns for outcome o of hc.Do(req)
TokenFromResponse(o) ==
    IF o.doErr # NoErr THEN Fail(FetchError(o.doErr))
    ELSE IF o.readErr # NoErr THEN Fail(FetchError(o.readErr))
    ELSE LET body == ReadAll(o.Body) IN
    IF NotSuccess(o.StatusCode)
    THEN Fail([type |-> "RetrieveError", StatusCode |-> o.StatusCode, Body |-> body])
    ELSE LET tokenRes == UnmarshalTokenRes(body) IN
    IF tokenRes.err # NoErr THEN Fail(FetchError(tokenRes.err))
    ELSE LET token == NewToken(tokenRes, UnmarshalRaw(body))
             parsed == ParseRFC3339(tokenRes.ExpiresAt)
         IN  IF tokenRes.ExpiresAt # EmptyStr
             THEN IF parsed.err # NoErr
                  THEN Fail(FetchError(parsed.err))
                  ELSE Ok([token EXCEPT !.Expiry = parsed.t])
             ELSE Ok(token)

\* RetrieveError.Error()
ErrorString(e) ==
    IF e.type = "RetrieveError"
    THEN <<"oauth2: cannot fetch token: ", e.StatusCode, "\nResponse: ", e.Body>>
    ELSE IF e.type = "fmt.Errorf" THEN e.text
    ELSE <<e.type>>

----------------------------------------------------------------------------
(* The token cache: oauth2.ReuseTokenSource(nil, jwtSource{ctx, c}) *)

\* (faulty variant) the margin reached counts as expired already
expiredAtMargin(t, n) ==
    IF t.Expiry = ZeroTime THEN FALSE ELSE t.Expiry - expiryDelta <= n

\* (faulty variant) expired only once Expiry itself lies before now
expiredAfterExpiry(t, n) ==
    IF t.Expiry = ZeroTime THEN FALSE ELSE t.Expiry < n

\* (faulty variant) an unset Expiry is taken for the instant 0
expiredUnsetIsPast(t, n) == t.Expiry - expiryDelta < n

\* Token.expired: Expiry, when set, less expiryDelta lies before now
expired(t, n) ==
    IF t.Expiry = ZeroTime THEN FALSE ELSE t.Expiry - expiryDelta < n

\* Token.Valid
Valid(t, n) == t # NoToken /\ t.AccessToken # "" /\ ~expired(t, n)

\* Token.Type() + " " + AccessToken, as Token.SetAuthHeader sets it
AuthHeader(t) == [scheme |-> t.TokenType, cred |-> t.AccessToken]


----------------------------------------------------------------------------
(* What the token endpoint and the network may answer *)

SmallBody == 64

DoError == [type |-> "net.OpError"]
ReadError == [type |-> "unexpected EOF"]

Answer(code, body) ==
    [doErr |-> NoErr, readErr |-> NoErr, StatusCode |-> code, Body |-> body]
NoAnswer == [doErr |-> DoError, readErr |-> NoErr, StatusCode |-> 0,
             Body |-> PlainBody("invalid", 0)]
BrokenAnswer(code, body) ==
    [doErr |-> NoErr, readErr |-> ReadError, StatusCode |-> code, Body |-> body]

\* The access token the endpoint issues for the n-th POST
TokenValue(n) == "v1." \o ToString(n)

\* expires_at of an issued token: soon (12 s, local time or UTC+1h), already
\* past the expiry margin (2 s), far ahead, or left out
ExpiryStamps == {Stamp(12, 0), Stamp(3612, 3600), Stamp(2, 0)}

ErrorBody == PlainBody("object", SmallBody)

IssuedBodies(n) ==
    {Object(JStr(TokenValue(n)), exp, Absent, JStr("all"), SmallBody) :
        exp \in {Absent} \cup {JStr(x) : x \in ExpiryStamps}}
    \cup {Object(JStr(""), Absent, Absent, JStr("all"), SmallBody)}

\* The answers the concurrency model draws from
CoreAnswers(n) ==
    {NoAnswer, Answer(400, ErrorBody)} \cup {Answer(201, b) : b \in IssuedBodies(n)}

\* Every shape of answer: each status around the 2xx range, bodies with a
\* field missing, null or of the wrong type, documents that are no object,
\* bodies at and over the read limit, and a body whose transfer breaks
Statuses == {199, 200, 299, 300, 400}

ShapedBodies(n) ==
    LET v == JStr(TokenValue(n))
        e == JStr(Stamp(12, 0))
        all == JStr("all")
    IN  IssuedBodies(n) \cup
        {Object(v, e, JStr("bearer"), all, SmallBody),
         Object(v, e, JNum, all, SmallBody),
         Object(JNum, e, Absent, all, SmallBody),
         Object(JNull, JNull, JNull, JNull, SmallBody),
         Object(v, JStr(BadTime), Absent, all, SmallBody),
         Object(v, JStr(EmptyStr), Absent, all, SmallBody),
         Object(v, JNum, Absent, all, SmallBody),
         Object(v, e, Absent, JNum, SmallBody),
         Object(v, e, Absent, all, LimitBytes),
         Object(v, e, Absent, all, LimitBytes + 1),
         ErrorBody,
         PlainBody("null", 4),
         PlainBody("array", 2),
         PlainBody("invalid", SmallBody)}

AllAnswers(n) ==
    {NoAnswer}
    \cup {Answer(code, b) : code \in Statuses, b \in ShapedBodies(n)}
    \cup {BrokenAnswer(code, b) : code \in {200, 400}, b \in IssuedBodies(n)}

NotAnswered == [nil |-> TRUE]

\* The permissions an installation token response lists
PermissionsObject == JObj([issues |-> JStr("write"), contents |-> JStr("read")])

\* Bodies of issued installation tokens: with the permissions and the
\* repository selection, without either, and with either of another JSON type
InstBodies(n) ==
    LET b == Object(JStr(TokenValue(n)), JStr(Stamp(12, 0)), Absent,
                    JStr("selected"), SmallBody)
    IN  {WithPermissions(b, PermissionsObject),
         WithPermissions([b EXCEPT !.fields["expires_at"] = Absent], PermissionsObject),
         b,
         WithPermissions(b, JStr("all")),
         WithPermissions([b EXCEPT !.fields["repository_selection"] = Absent],
                         PermissionsObject),
         WithPermissions([b EXCEPT !.fields["repository_selection"] = JNum],
                         PermissionsObject)}

InstAnswers(n) == {NoAnswer} \cup {Answer(201, b) : b \in InstBodies(n)}

\* No answer, a token that is past its expiry margin as it arrives, so that
\* the next call signs and sends a request again, or one that lasts a second
ShortLivedAnswers(n) ==
    {NoAnswer} \cup
    {Answer(201, Object(JStr(TokenValue(n)), JStr(Stamp(e, 0)), Absent, JStr("all"),
                        SmallBody)) : e \in {2, 12}}

----------------------------------------------------------------------------
(* State *)

InstConfig == [AppID |-> "1", PrivateKey |-> "valid", Expires |-> TenMinutes,
               TokenURL |-> GoodURL]

\* inst.NewConfig with a key that signs, a key that cannot, and a jwt.Config
\* whose TokenURL does not parse
Configs == {InstConfig,
            [InstConfig EXCEPT !.PrivateKey = "invalid"],
            [InstConfig EXCEPT !.TokenURL = BadURL]}

\* app.NewConfig, and a jwt.JWT without Expires or with a negative one
AppConfigs == {InstConfig,
               [InstConfig EXCEPT !.PrivateKey = "invalid"],
               [InstConfig EXCEPT !.Expires = 0],
               [InstConfig EXCEPT !.Expires = -1]}

\* How the validity check of a call found the cache: "empty" (no token),
\* "unset" (a token without expiry), "early" (now <= Expiry - expiryDelta),
\* "margin" (Expiry - expiryDelta < now < Expiry) or "due" (now >= Expiry)
Phase(t, n) ==
    CASE t = NoToken -> "empty"
      [] t # NoToken /\ t.Expiry = ZeroTime -> "unset"
      [] t # NoToken /\ t.Expiry # ZeroTime /\ n >= t.Expiry -> "due"
      [] t # NoToken /\ t.Expiry # ZeroTime /\ n < t.Expiry
           /\ t.Expiry - expiryDelta < n -> "margin"
      [] OTHER -> "early"

\* call[c]: the operation, its token source, and what is remembered of the
\* call for the properties below: whether the cache was empty when the call
\* was made, which POST of another call was out when it was made (0 for
\* none), how the validity check found the cache, whether the call sent a POST
\* (and which), whether its context was cancelled while the POST was out, and
\* the answer hc.Do returned.
NoCall == [op |-> "none", src |-> 0, sawEmpty |-> FALSE, arrived |-> 0,
           phase |-> "none", did |-> FALSE, post |-> 0, cancelled |-> FALSE,
           got |-> NotAnswered]

NameLists == {<<>>, <<"a", "b">>}
IDLists == {<<>>, <<"1">>}

InitWith(configs) ==
    /\ now = 1
    /\ conf \in configs
    /\ repos = [Names |-> <<>>, IDs |-> <<>>]
    /\ ctxDone = [s \in Sources |-> FALSE]
    /\ cache = [s \in Sources |-> NoToken]
    /\ mu = [s \in Sources |-> 0]
    /\ pc = [c \in Callers |-> "idle"]
    /\ call = [c \in Callers |-> NoCall]
    /\ req = [c \in Callers |-> NoReq]
    /\ result = [c \in Callers |-> Fail(NoErr)]
    /\ sent = [c \in Callers |-> NoReq]
    /\ posts = 0
    /\ out = [c \in Callers |-> NoOut]
    /\ appReq = [r \in Reqs |-> [Accept |-> <<>>, Authorization |-> <<>>]]
    /\ appOut = [req |-> 0, at |-> 0, sent |-> NoReq, err |-> NoErr]

Init == InitWith(Configs)
InitApp == InitWith(AppConfigs)

----------------------------------------------------------------------------
(* Actions *)

\* The clock advances
Tick ==
    /\ now < MaxTime
    /\ now' = now + 1
    /\ UNCHANGED <<instVars, appVars>>

\* inst.Config.SetRepositories(names)
SetRepositories(names) ==
    /\ repos' = [repos EXCEPT !.Names = names]
    /\ UNCHANGED <<now, conf, ctxDone, cache, mu, pc, call, req, result, sent,
                   posts, out, appVars>>

\* inst.Config.SetRepositoryIDs(ids)
SetRepositoryIDs(ids) ==
    /\ repos' = [repos EXCEPT !.IDs = ids]
    /\ UNCHANGED <<now, conf, ctxDone, cache, mu, pc, call, req, result, sent,
                   posts, out, appVars>>

\* The caller's context of token source s is cancelled (or its deadline
\* passes).  jwtSource keeps ctx only to look up its HTTP client; the request
\* is made by http.NewRequest, which gives it the background context.
CancelCtx(s) ==
    /\ ~ctxDone[s]
    /\ ctxDone' = [ctxDone EXCEPT ![s] = TRUE]
    /\ call' = [c \in Callers |->
                  IF pc[c] = "inflight" /\ call[c].src = s
                  THEN [call[c] EXCEPT !.cancelled = TRUE] ELSE call[c]]
    /\ UNCHANGED <<now, conf, repos, cache, mu, pc, req, result, sent, posts, out, appVars>>

\* Caller c invokes Token() on token source s (op "Token"), or sends a request
\* through the client of Config.Client whose source is s (op "RoundTrip"),
\* and waits for the mutex.
Invoke(c, s, op) ==
    /\ pc[c] = "idle"
    /\ pc' = [pc EXCEPT ![c] = "lock"]
    /\ call' = [call EXCEPT ![c] = [NoCall EXCEPT !.op = op, !.src = s,
                                       !.sawEmpty = (cache[s] = NoToken),
                                       !.arrived = IF mu[s] = 0 THEN 0
                                                   ELSE call[mu[s]].post]]
    /\ UNCHANGED <<now, conf, repos, ctxDone, cache, mu, req, result, sent, posts,
                   out, appVars>>

\* (faulty variant) a cache that does not take the mutex
MuFreeUnlocked(s) == TRUE

\* reuseTokenSource.mu is free
MuFree(s) == mu[s] = 0

\* reuseTokenSource.Token with a valid cached token: lock, return s.t, unlock
CacheHit(c) ==
    LET s == call[c].src IN
    /\ pc[c] = "lock"
    /\ MuFree(s)
    /\ Valid(cache[s], now)
    /\ pc' = [pc EXCEPT ![c] = "ret"]
    /\ call' = [call EXCEPT ![c].phase = Phase(cache[s], now)]
    /\ result' = [result EXCEPT ![c] = Ok(cache[s])]
    /\ UNCHANGED <<now, conf, repos, ctxDone, cache, mu, req, sent, posts, out, appVars>>

\* reuseTokenSource.Token without one: lock and call jwtSource.Token, which
\* builds the request and sends it (hc.Do), the mutex held; a request that
\* cannot be built ends the call with the error.
CacheMiss(c) ==
    LET s == call[c].src
        b == BuildRequest(conf, repos, now)
    IN
    /\ pc[c] = "lock"
    /\ MuFree(s)
    /\ ~Valid(cache[s], now)
    /\ IF b.err # NoErr
       THEN /\ pc' = [pc EXCEPT ![c] = "ret"]
            /\ result' = [result EXCEPT ![c] = Fail(b.err)]
            /\ call' = [call EXCEPT ![c].phase = Phase(cache[s], now)]
            /\ UNCHANGED <<mu, req, posts>>
       ELSE /\ posts < MaxExchanges
            /\ pc' = [pc EXCEPT ![c] = "inflight"]
            /\ mu' = [mu EXCEPT ![s] = c]
            /\ req' = [req EXCEPT ![c] = b.req]
            /\ posts' = posts + 1
            /\ call' = [call EXCEPT ![c].phase = Phase(cache[s], now),
                                    ![c].did = TRUE, ![c].post = posts + 1]
            /\ UNCHANGED result
    /\ UNCHANGED <<now, conf, repos, ctxDone, cache, sent, out, appVars>>

\* (faulty variant) the cache takes what new.Token() returned before looking at err
KeepUnchecked(old, r) == r.tok

\* What reuseTokenSource keeps after new.Token() returned r: the token, unless
\* r is an error
Keep(old, r) == IF r.err # NoErr THEN old ELSE r.tok

\* (faulty variant) a failed exchange is tried again within the call
RespondRetrying(c, o) ==
    LET s == call[c].src
        r == TokenFromResponse(o)
    IN
    /\ pc[c] = "inflight"
    /\ pc' = [pc EXCEPT ![c] = IF r.err # NoErr THEN "lock" ELSE "ret"]
    /\ result' = [result EXCEPT ![c] = r]
    /\ cache' = [cache EXCEPT ![s] = Keep(cache[s], r)]
    /\ mu' = [mu EXCEPT ![s] = 0]
    /\ req' = [req EXCEPT ![c] = NoReq]
    /\ call' = [call EXCEPT ![c].got = o]
    /\ UNCHANGED <<now, conf, repos, ctxDone, sent, posts, out, appVars>>

\* hc.Do returns with answer o: jwtSource.Token returns, reuseTokenSource
\* stores a token it got, unlocks and returns.
Respond(c, o) ==
    LET s == call[c].src
        r == TokenFromResponse(o)
    IN
    /\ pc[c] = "inflight"
    /\ pc' = [pc EXCEPT ![c] = "ret"]
    /\ result' = [result EXCEPT ![c] = r]
    /\ cache' = [cache EXCEPT ![s] = Keep(cache[s], r)]
    /\ mu' = [mu EXCEPT ![s] = 0]
    /\ req' = [req EXCEPT ![c] = NoReq]
    /\ call' = [call EXCEPT ![c].got = o]
    /\ UNCHANGED <<now, conf, repos, ctxDone, sent, posts, out, appVars>>

\* (faulty variant) the request goes out whatever Source.Token() returned
ForwardAnyway(r) ==
    IF r.err # NoErr THEN [Authorization |-> <<>>]
    ELSE [Authorization |-> <<AuthHeader(r.tok)>>]

\* oauth2.Transport.RoundTrip after Source.Token() returned: an error ends the
\* round trip; a token is set on a clone of the request, which goes to the
\* wrapped transport.
Forward(r) ==
    IF r.err # NoErr THEN NoReq ELSE [Authorization |-> <<AuthHeader(r.tok)>>]

Dispatch(c) ==
    /\ pc[c] = "ret"
    /\ call[c].op = "RoundTrip"
    /\ pc' = [pc EXCEPT ![c] = "done"]
    /\ sent' = [sent EXCEPT ![c] = Forward(result[c])]
    /\ UNCHANGED <<now, conf, repos, ctxDone, cache, mu, call, req, result, posts,
                   out, appVars>>

\* The call is over; the caller may start another
Return(c) ==
    /\ \/ pc[c] = "ret" /\ call[c].op = "Token"
       \/ pc[c] = "done"
    /\ pc' = [pc EXCEPT ![c] = "idle"]
    /\ call' = [call EXCEPT ![c] = NoCall]
    /\ result' = [result EXCEPT ![c] = Fail(NoErr)]
    /\ sent' = [sent EXCEPT ![c] = NoReq]
    /\ out' = [out EXCEPT ![c] = NoOut]
    /\ UNCHANGED <<now, conf, repos, ctxDone, cache, mu, req, posts, appVars>>

\* (faulty variant) the error of Payload() is not looked at
AppRoundTripUnchecked(r, ok) ==
    LET p == Payload(conf, now)
        h1 == [appReq[r] EXCEPT !.Accept = Append(@, AcceptV3)]
        h2 == [h1 EXCEPT !.Authorization = Append(@, Bearer(p.payload))]
    IN
    /\ Len(appReq[r].Accept) < MaxDispatch
    /\ appReq' = [appReq EXCEPT ![r] = h2]
    /\ appOut' = [req |-> r, at |-> now, sent |-> h2,
                  err |-> IF ok THEN NoErr ELSE DoError]
    /\ UNCHANGED <<now, instVars>>

\* transport.RoundTrip(r) of the App client: the headers are added to the
\* caller's request r, which then goes to http.DefaultTransport (whose round
\* trip succeeds or not: ok).  Header.Add appends to the values r holds.
AppRoundTrip(r, ok) ==
    LET p == Payload(conf, now)
        h1 == [appReq[r] EXCEPT !.Accept = Append(@, AcceptV3)]
        h2 == [h1 EXCEPT !.Authorization = Append(@, Bearer(p.payload))]
    IN
    /\ Len(appReq[r].Accept) < MaxDispatch
    /\ IF p.err # NoErr
       THEN /\ appReq' = [appReq EXCEPT ![r] = h1]
            /\ appOut' = [req |-> r, at |-> now, sent |-> NoReq, err |-> p.err]
       ELSE /\ appReq' = [appReq EXCEPT ![r] = h2]
            /\ appOut' = [req |-> r, at |-> now, sent |-> h2,
                          err |-> IF ok THEN NoErr ELSE DoError]
    /\ UNCHANGED <<now, instVars>>

\* Concurrent callers of one token source
Main == 1

\* (faulty variant) one cache for the Config: a new token source starts with
\* the token the first one holds
TokenSourceOfConfig(ctx) == [t |-> cache[Main], mu |-> 0, done |-> ctx]

\* Config.TokenSource(ctx): oauth2.ReuseTokenSource(nil, jwtSource{ctx, c}), a
\* cache of its own that holds no token; ctx tells whether the context is
\* cancelled already
TokenSource(ctx) == [t |-> NoToken, mu |-> 0, done |-> ctx]

\* No call is under way on token source s
Unused(s) == \A c \in Callers : call[c].src # s

\* Token source s is not the one of a Permissions or RepositorySelection call
\* under way, which no other caller can reach
Reachable(s) ==
    \A c \in Callers :
        call[c].src = s => call[c].op \notin {"Permissions", "RepositorySelection"}

\* The token source s is dropped and Config.TokenSource (or Config.Client)
\* makes another in its place
NewTokenSource(s) ==
    LET ts == TokenSource(FALSE) IN
    /\ Unused(s)
    /\ cache' = [cache EXCEPT ![s] = ts.t]
    /\ mu' = [mu EXCEPT ![s] = ts.mu]
    /\ ctxDone' = [ctxDone EXCEPT ![s] = ts.done]
    /\ UNCHANGED <<now, conf, repos, pc, call, req, result, sent, posts, out, appVars>>

\* c.config.TokenSource(context.Background()).Token(), the first statement of
\* Permissions and of RepositorySelection: a token source is made, in place s,
\* and caller c invokes Token() on it
TokenOfNewSource(c, s, op) ==
    LET ts == TokenSource(FALSE) IN
    /\ pc[c] = "idle"
    /\ Unused(s)
    /\ cache' = [cache EXCEPT ![s] = ts.t]
    /\ mu' = [mu EXCEPT ![s] = ts.mu]
    /\ ctxDone' = [ctxDone EXCEPT ![s] = ts.done]
    /\ pc' = [pc EXCEPT ![c] = "lock"]
    /\ call' = [call EXCEPT ![c] = [NoCall EXCEPT !.op = op, !.src = s,
                                       !.sawEmpty = (ts.t = NoToken)]]
    /\ UNCHANGED <<now, conf, repos, req, result, sent, posts, out, appVars>>

\* inst.Config.Permissions(), up to its Token() call
Permissions(c, s) == TokenOfNewSource(c, s, "Permissions")

\* inst.Config.RepositorySelection(), up to its Token() call
RepositorySelection(c, s) == TokenOfNewSource(c, s, "RepositorySelection")

\* fmt.Errorf("failed to get token: %v", err)
TokenError(cause) == [type |-> "fmt.Errorf", text |-> <<"failed to get token: ", cause>>]

\* fmt.Errorf("failed to get permissions from extra field: %v", extra)
ExtraError(extra) ==
    [type |-> "fmt.Errorf",
     text |-> <<"failed to get permissions from extra field: ", extra>>]

NilMap == [nil |-> TRUE]

\* Permissions() after Token() returned r: the type assertion
\* extra.(map[string]string) on the "permissions" extra
PermissionsOf(r) ==
    IF r.err # NoErr THEN [val |-> NilMap, err |-> TokenError(r.err)]
    ELSE LET extra == Extra(r.tok, "permissions") IN
         IF extra.go = "map[string]string"
         THEN [val |-> extra.v, err |-> NoErr]
         ELSE [val |-> NilMap, err |-> ExtraError(extra)]

\* RepositorySelection() after Token() returned r: the type assertion
\* extra.(string) on the "repository_selection" extra
RepositorySelectionOf(r) ==
    IF r.err # NoErr THEN [val |-> "", err |-> TokenError(r.err)]
    ELSE LET extra == Extra(r.tok, "repository_selection") IN
         IF extra.go = "string"
         THEN [val |-> extra.v, err |-> NoErr]
         ELSE [val |-> "", err |-> ExtraError(extra)]

\* Token() has returned to Permissions / RepositorySelection, which returns
ReturnExtra(c) ==
    /\ pc[c] = "ret"
    /\ call[c].op \in {"Permissions", "RepositorySelection"}
    /\ pc' = [pc EXCEPT ![c] = "done"]
    /\ out' = [out EXCEPT ![c] = IF call[c].op = "Permissions"
                                  THEN PermissionsOf(result[c])
                                  ELSE RepositorySelectionOf(result[c])]
    /\ UNCHANGED <<now, conf, repos, ctxDone, cache, mu, call, req, result, sent,
                   posts, appVars>>

Next ==
    \/ Tick
    \/ \E c \in Callers : Invoke(c, Main, "Token")
    \/ \E c \in Callers : CacheHit(c)
    \/ \E c \in Callers : CacheMiss(c)
    \/ \E c \in Callers : \E o \in CoreAnswers(call[c].post) : Respond(c, o)
    \/ \E c \in Callers : Return(c)

Spec == Init /\ [][Next]_vars

\* Concurrent requests through the client of Config.Client
NextTransport ==
    \/ Tick
    \/ \E c \in Callers : Invoke(c, Main, "RoundTrip")
    \/ \E c \in Callers : CacheHit(c)
    \/ \E c \in Callers : CacheMiss(c)
    \/ \E c \in Callers : \E o \in CoreAnswers(call[c].post) : Respond(c, o)
    \/ \E c \in Callers : Dispatch(c)
    \/ \E c \in Callers : Return(c)

SpecTransport == Init /\ [][NextTransport]_vars

\* One caller of one token source, the repository scope and the context
\* changing under it
NextSeq ==
    \/ Tick
    \/ \E names \in NameLists : SetRepositories(names)
    \/ \E ids \in IDLists : SetRepositoryIDs(ids)
    \/ CancelCtx(Main)
    \/ \E op \in {"Token", "RoundTrip"} : Invoke(1, Main, op)
    \/ CacheHit(1)
    \/ CacheMiss(1)
    \/ \E o \in CoreAnswers(call[1].post) : Respond(1, o)
    \/ Dispatch(1)
    \/ Return(1)

SpecSeq == Init /\ [][NextSeq]_vars

\* One caller of one token source, the endpoint answering in every shape
NextExchange ==
    \/ Tick
    \/ Invoke(1, Main, "Token")
    \/ CacheHit(1)
    \/ CacheMiss(1)
    \/ \E o \in AllAnswers(call[1].post) : Respond(1, o)
    \/ Return(1)

SpecExchange == Init /\ [][NextExchange]_vars

\* Several token sources of one installation Config: caller 1 keeps to the
\* first, the others make their own, by TokenSource or within Permissions and
\* RepositorySelection
NextInst ==
    \/ Tick
    \/ Invoke(1, Main, "Token")
    \/ \E s \in Sources \ {Main} : NewTokenSource(s)
    \/ \E c \in Callers \ {1} : \E s \in Sources \ {Main} :
          Reachable(s) /\ Invoke(c, s, "Token")
    \/ \E c \in Callers \ {1} : \E s \in Sources \ {Main} : Permissions(c, s)
    \/ \E c \in Callers \ {1} : \E s \in Sources \ {Main} : RepositorySelection(c, s)
    \/ \E c \in Callers : CacheHit(c)
    \/ \E c \in Callers : CacheMiss(c)
    \/ \E c \in Callers : \E o \in InstAnswers(call[c].post) : Respond(c, o)
    \/ \E c \in Callers : ReturnExtra(c)
    \/ \E c \in Callers : Return(c)

SpecInst == Init /\ [][NextInst]_vars

\* Requests through the client of JWT.Client
NextApp ==
    \/ Tick
    \/ \E r \in Reqs : \E ok \in BOOLEAN : AppRoundTrip(r, ok)

SpecApp == InitApp /\ [][NextApp]_vars

\* Both users of JWT.Payload: the exchange of one caller and one request,
\* sent and sent again, through the client of JWT.Client
NextSign ==
    \/ Tick
    \/ Invoke(1, Main, "Token")
    \/ CacheHit(1)
    \/ CacheMiss(1)
    \/ \E o \in ShortLivedAnswers(call[1].post) : Respond(1, o)
    \/ Return(1)
    \/ \E ok \in BOOLEAN : AppRoundTrip(1, ok)

SpecSign == InitApp /\ [][NextSign]_vars

----------------------------------------------------------------------------
(* Properties *)

\* The calls of token source s that sent a POST
Exchangers(s) == {c \in Callers : call[c].src = s /\ call[c].did}

\* Every caller has a Token() call on s that was made while the cache was
\* empty and has returned a token
AllReturnedFromEmpty(s) ==
    \A c \in Callers :
        /\ pc[c] = "ret"
        /\ call[c].src = s
        /\ call[c].sawEmpty
        /\ result[c].err = NoErr

\* C1 as stated: when all NCallers callers invoke Token() on one token source
\* while its cache is empty and each gets a token, exactly one of the calls
\* sent a POST and all hold the same token.
C1_SingleFlightAnyToken ==
    \A s \in Sources :
        AllReturnedFromEmpty(s) =>
            /\ Cardinality(Exchangers(s)) = 1
            /\ \A c, d \in Callers : result[c].tok = result[d].tok

\* A token that has a value and whose expiry, if set, is at least the expiry
\* margin away at time n
Usable(t, n) ==
    /\ t.AccessToken # ""
    /\ t.Expiry = ZeroTime \/ n + expiryDelta <= t.Expiry

\* C1 (amended): the same, for calls whose tokens are still usable (a value,
\* and no expiry or one at least 10 s ahead) when the last call has returned:
\* exactly one POST, one token for all.
C1_SingleFlight ==
    \A s \in Sources :
        (AllReturnedFromEmpty(s) /\ \A c \in Callers : Usable(result[c].tok, now)) =>
            /\ Cardinality(Exchangers(s)) = 1
            /\ \A c, d \in Callers : result[c].tok = result[d].tok

C1_Witness ==
    /\ NCallers >= 2
    /\ AllReturnedFromEmpty(Main)
    /\ \A c \in Callers : Usable(result[c].tok, now)
    /\ Cardinality(Exchangers(Main)) = 1
    /\ posts = 1

\* Caller c's validity check runs in this step: it leaves "lock"
Checks(c) == pc[c] = "lock" /\ pc'[c] # "lock"

\* The step returns the cached token of c's source to c and sends nothing
ReturnsCached(c) ==
    /\ pc'[c] = "ret"
    /\ result'[c] = Ok(cache[call[c].src])
    /\ cache' = cache
    /\ posts' = posts
    /\ req' = req

\* C2 as stated: a Token() call whose check runs at now < E, E the expiry of
\* the cached token, returns the cached token and sends no request.
C2_ValidUntilExpiry ==
    [][\A c \in Callers :
          (/\ Checks(c)
           /\ cache[call[c].src] # NoToken
           /\ cache[call[c].src].Expiry # ZeroTime
           /\ now < cache[call[c].src].Expiry)
          => ReturnsCached(c)]_vars

\* C2 (amended): a Token() call whose check runs at now <= E - 10 s returns
\* the cached token, when it has a value, and sends no request.
C2_ValidUntilMargin ==
    [][\A c \in Callers :
          (/\ Checks(c)
           /\ cache[call[c].src] # NoToken
           /\ cache[call[c].src].Expiry # ZeroTime
           /\ cache[call[c].src].AccessToken # ""
           /\ now + expiryDelta <= cache[call[c].src].Expiry)
          => ReturnsCached(c)]_vars

C2_Witness ==
    \E c \in Callers :
        /\ pc[c] = "ret"
        /\ call[c].phase = "early"
        /\ ~call[c].did
        /\ result[c].err = NoErr
        /\ result[c].tok.Expiry = 12
        /\ posts = 1

\* The step takes c through the exchange path as an empty cache would: the
\* request of jwtSource.Token is sent, or the error of building it returned;
\* the cached token is not handed out.
StartsExchange(c) ==
    LET b == BuildRequest(conf, repos, now) IN
    IF b.err # NoErr
    THEN pc'[c] = "ret" /\ result'[c] = Fail(b.err) /\ posts' = posts
    ELSE /\ pc'[c] = "inflight"
         /\ req'[c] = b.req
         /\ posts' = posts + 1
         /\ mu'[call[c].src] = c

\* The exchange of c ends in this step with a token
Refreshed(c) == pc[c] = "inflight" /\ pc'[c] = "ret" /\ result'[c].err = NoErr

\* C3: a Token() call whose check runs at now >= E, E the expiry of the cached
\* token, goes through the exchange as from the empty cache; when the exchange
\* ends with a token, that token, issued for this call's POST, is returned and
\* is the one the cache holds.
C3_StaleRefreshes ==
    [][\A c \in Callers :
          /\ (/\ Checks(c)
              /\ cache[call[c].src] # NoToken
              /\ cache[call[c].src].Expiry # ZeroTime
              /\ now >= cache[call[c].src].Expiry)
             => StartsExchange(c)
          /\ (Refreshed(c) /\ call[c].phase = "due")
             => /\ cache'[call[c].src] = result'[c].tok
                /\ result'[c].tok.AccessToken \in {TokenValue(call[c].post), ""}]_vars

C3_Witness ==
    \E c \in Callers :
        /\ pc[c] = "ret"
        /\ call[c].phase = "due"
        /\ call[c].did
        /\ result[c].err = NoErr
        /\ result[c].tok.AccessToken = TokenValue(2)
        /\ cache[Main] = result[c].tok

\* The call of c, which found no valid token, ends in this step with an error
FailsExchange(c) ==
    /\ pc[c] \in {"lock", "inflight"}
    /\ pc'[c] = "ret"
    /\ result'[c].err # NoErr

\* C4: a Token() call that found the cache empty or stale and whose exchange
\* fails returns the error and no token and leaves the cache as it was, not
\* valid, so that the next check misses again.
C4_FailureNotCached ==
    [][\A c \in Callers :
          FailsExchange(c) =>
              /\ result'[c].tok = NoToken
              /\ cache'[call[c].src] = cache[call[c].src]
              /\ ~Valid(cache'[call[c].src], now')
              /\ mu'[call[c].src] = 0]_vars

C4_Witness ==
    \E c \in Callers :
        /\ pc[c] = "ret"
        /\ call[c].did
        /\ call[c].phase \in {"margin", "due"}
        /\ result[c].err # NoErr
        /\ result[c].tok = NoToken
        /\ cache[Main] # NoToken
        /\ ~Valid(cache[Main], now)


\* C5 as stated: the POST of an exchange carries a body that decodes to the
\* repository lists the Config holds when the exchange is made, the two keys
\* left out when both lists are empty.
C5_ScopeInRequestBody ==
    [][\A c \in Callers :
          (pc[c] = "lock" /\ pc'[c] = "inflight") =>
              /\ DecodeRepositories(req'[c].Body) = repos
              /\ (repos.Names # <<>> \/ repos.IDs # <<>>) => req'[c].Body # NoBody]_vars

IsRetrieveError(e) == e # NoErr /\ e.type = "RetrieveError"

\* Caller c holds the outcome of an exchange that hc.Do answered
Answered(c) ==
    /\ pc[c] = "ret"
    /\ call[c].got # NotAnswered
    /\ call[c].got.doErr = NoErr

\* C6 as stated: for every response, a status in 200..299 is no RetrieveError,
\* and any other status is a RetrieveError with the status and the body the
\* endpoint sent, rendered "oauth2: cannot fetch token: <status>\nResponse:
\* <body>", and no token.
C6_StatusPolicyVerbatim ==
    \A c \in Callers :
        Answered(c) =>
            LET o == call[c].got
                r == result[c]
            IN  IF o.StatusCode \in 200..299
                THEN ~IsRetrieveError(r.err)
                ELSE /\ IsRetrieveError(r.err)
                     /\ r.err.StatusCode = o.StatusCode
                     /\ r.err.Body = o.Body
                     /\ ErrorString(r.err) =
                          <<"oauth2: cannot fetch token: ", o.StatusCode,
                            "\nResponse: ", o.Body>>
                     /\ r.tok = NoToken

\* C6 (amended): for every response whose body is read without error, a status
\* in 200..299 is no RetrieveError, and any other status is a RetrieveError
\* with the status and the first 1 MiB of the body (all of a body that is no
\* longer), rendered with that status and body, and no token.
C6_StatusPolicy ==
    \A c \in Callers :
        (Answered(c) /\ call[c].got.readErr = NoErr) =>
            LET o == call[c].got
                r == result[c]
            IN  IF o.StatusCode \in 200..299
                THEN ~IsRetrieveError(r.err)
                ELSE /\ IsRetrieveError(r.err)
                     /\ r.err.StatusCode = o.StatusCode
                     /\ r.err.Body.size =
                          (IF o.Body.size <= LimitBytes THEN o.Body.size ELSE LimitBytes)
                     /\ o.Body.size <= LimitBytes => r.err.Body = o.Body
                     /\ ErrorString(r.err) =
                          <<"oauth2: cannot fetch token: ", o.StatusCode,
                            "\nResponse: ", r.err.Body>>
                     /\ r.tok = NoToken

C6_Witness ==
    \E c \in Callers :
        /\ Answered(c)
        /\ call[c].got.StatusCode = 400
        /\ call[c].got.Body.size = LimitBytes
        /\ IsRetrieveError(result[c].err)
        /\ result[c].err.Body = call[c].got.Body

\* The body is a JSON object with a string "token" and an RFC3339 "expires_at"
HasTokenFields(b) ==
    /\ b.kind = "object"
    /\ b.fields["token"].j = "string"
    /\ b.fields["expires_at"].j = "string"
    /\ b.fields["expires_at"].s.txt = "rfc3339"

\* The token of result r is the one body b spells: value, instant of expiry,
\* the type "token", every top-level field among the extras
TokenSpelledBy(r, b) ==
    /\ r.err = NoErr
    /\ r.tok.AccessToken = b.fields["token"].s
    /\ r.tok.Expiry = b.fields["expires_at"].s.local - b.fields["expires_at"].s.off
    /\ r.tok.TokenType = "token"
    /\ \A k \in Keys :
          b.fields[k] # Absent =>
              /\ k \in DOMAIN r.tok.raw
              /\ Extra(r.tok, k) = GoValue(b.fields[k])

\* C7 as stated: every 2xx response whose body is a JSON object with token = V
\* and expires_at = E gives, without error, the token with that value, that
\* expiry, the type "token" and all top-level fields as extras.
C7_TokenFromAnyBody ==
    \A c \in Callers :
        (/\ Answered(c)
         /\ call[c].got.readErr = NoErr
         /\ call[c].got.StatusCode \in 200..299
         /\ HasTokenFields(call[c].got.Body))
        => TokenSpelledBy(result[c], call[c].got.Body)

\* C7 (amended): the same for a body of at most 1 MiB whose TokenType field, if
\* there is one, is a string or null.
C7_TokenFromBody ==
    \A c \in Callers :
        (/\ Answered(c)
         /\ call[c].got.readErr = NoErr
         /\ call[c].got.StatusCode \in 200..299
         /\ HasTokenFields(call[c].got.Body)
         /\ call[c].got.Body.size <= LimitBytes
         /\ call[c].got.Body.fields["TokenType"].j \in {"absent", "null", "string"})
        => TokenSpelledBy(result[c], call[c].got.Body)

C7_Witness ==
    \E c \in Callers :
        /\ Answered(c)
        /\ call[c].got.StatusCode = 299
        /\ HasTokenFields(call[c].got.Body)
        /\ call[c].got.Body.fields["TokenType"] = JStr("bearer")
        /\ call[c].got.Body.fields["expires_at"].s \in {Stamp(3612, 3600), Stamp(12, 0)}
        /\ result[c].err = NoErr
        /\ result[c].tok.TokenType = "token"
        /\ result[c].tok.Expiry = 12
        /\ Extra(result[c].tok, "repository_selection") = [go |-> "string", v |-> "all"]

\* C8: the wrapped transport receives nothing from a round trip before its
\* Token() call has returned, nothing at all when that call failed, and
\* otherwise a request whose Authorization header is "token <value>" of the
\* token the call returned; and a token a call returns is the one the cache
\* holds as the call returns.
C8_NeverUnauthenticated ==
    /\ [](\A c \in Callers :
            /\ pc[c] # "done" => sent[c] = NoReq
            /\ pc[c] = "done" =>
                 IF result[c].err # NoErr
                 THEN sent[c] = NoReq
                 ELSE sent[c] = [Authorization |->
                                   <<[scheme |-> "token",
                                      cred |-> result[c].tok.AccessToken]>>])
    /\ [][\A c \in Callers :
            (pc[c] \in {"lock", "inflight"} /\ pc'[c] = "ret"
             /\ result'[c].err = NoErr)
            => result'[c].tok = cache'[call[c].src]]_vars

C8_Witness ==
    \E c, d \in Callers :
        /\ pc[c] = "done" /\ pc[d] = "done"
        /\ result[c].err = NoErr
        /\ sent[c] # NoReq
        /\ ~call[c].did
        /\ result[d].err # NoErr
        /\ sent[d] = NoReq

\* C9 as stated: the request an App round trip hands to the underlying
\* transport carries as Authorization exactly "Bearer <assertion>", the
\* assertion signed in that round trip, and no value of an earlier dispatch.
C9_FreshCredentialOnly ==
    appOut.sent # NoReq =>
        appOut.sent.Authorization = <<Bearer(Payload(conf, appOut.at).payload)>>

\* The error reports a cancellation
ReportsCancellation(e) ==
    /\ e # NoErr
    /\ \/ e.type \in {"context.Canceled", "context.DeadlineExceeded"}
       \/ /\ e.type = "fmt.Errorf"
          /\ e.text[2].type \in {"context.Canceled", "context.DeadlineExceeded"}

\* C10 as stated: a Token() call whose context is cancelled while its exchange
\* is in flight returns an error reporting the cancellation and does not leave
\* a valid token in the cache.
C10_CancelStopsExchange ==
    \A c \in Callers :
        (pc[c] \in {"ret", "done"} /\ call[c].cancelled) =>
            /\ ReportsCancellation(result[c].err)
            /\ result[c].tok = NoToken

\* The body is a JSON object without an "expires_at" field
OmitsExpiry(b) == b.kind = "object" /\ b.fields["expires_at"] = Absent

GotToken(c) ==
    /\ pc[c] = "done"
    /\ call[c].got # NotAnswered
    /\ result[c].err = NoErr

\* The JSON value is an object of strings
IsStringMap(v) == v.j = "object" /\ \A k \in DOMAIN v.m : v.m[k].j = "string"

\* C12 as stated: after an exchange answered with a body whose "permissions"
\* field is an object of permission names and string levels, Permissions()
\* returns that map and no error; after one whose "repository_selection" field
\* is a string, RepositorySelection() returns that string and no error.
C12_PermissionsReturned ==
    \A c \in Callers :
        GotToken(c) =>
            LET f == call[c].got.Body.fields IN
            /\ (call[c].op = "Permissions" /\ IsStringMap(f["permissions"]))
               => out[c] = [val |-> [k \in DOMAIN f["permissions"].m |->
                                       f["permissions"].m[k].s],
                            err |-> NoErr]
            /\ (call[c].op = "RepositorySelection"
                /\ f["repository_selection"].j = "string")
               => out[c] = [val |-> f["repository_selection"].s, err |-> NoErr]

\* The calls that have a POST out for token source s
InFlight(s) == {c \in Callers : pc[c] = "inflight" /\ call[c].src = s}

\* C13 as stated: no token cache ever has more than one exchange in flight,
\* and a call made while an exchange was in flight returns the token of that
\* exchange from the cache and sends no request of its own.
C13_WaitersShareRefresh ==
    /\ [](\A s \in Sources : Cardinality(InFlight(s)) <= 1)
    /\ [][\A c \in Callers :
            (Checks(c) /\ call[c].arrived # 0) =>
                /\ ReturnsCached(c)
                /\ result'[c].tok.AccessToken = TokenValue(call[c].arrived)]_vars

\* C13 (amended): no token cache ever has more than one exchange in flight; a
\* call made while an exchange was in flight has its check only once no
\* exchange is in flight, and then returns the cached token when that is
\* valid, a token issued by that exchange or a later one, and otherwise goes
\* through an exchange of its own.
C13_WaitersAfterRefresh ==
    /\ [](\A s \in Sources : Cardinality(InFlight(s)) <= 1)
    /\ [][\A c \in Callers :
            (Checks(c) /\ call[c].arrived # 0) =>
                /\ InFlight(call[c].src) = {}
                /\ IF Valid(cache[call[c].src], now)
                   THEN /\ ReturnsCached(c)
                        /\ \E k \in call[c].arrived..posts :
                              result'[c].tok.AccessToken = TokenValue(k)
                   ELSE StartsExchange(c)]_vars

C13_Witness ==
    \E c \in Callers :
        /\ pc[c] = "ret"
        /\ call[c].arrived = 2
        /\ call[c].phase = "unset"
        /\ ~call[c].did
        /\ result[c].err = NoErr
        /\ result[c].tok.AccessToken = TokenValue(2)
        /\ posts = 2

\* C14 as stated: when the HTTP call of the exchange fails, Token() returns the
\* very error value the HTTP call produced.
C14_TransportErrorUnchanged ==
    \A c \in Callers :
        (pc[c] = "ret" /\ call[c].got # NotAnswered /\ call[c].got.doErr # NoErr)
        => result[c].err = call[c].got.doErr

\* The repository scope changes in this step while token source s holds a
\* valid token
ScopeChangesUnderValid(s) == repos' # repos /\ Valid(cache[s], now)

\* C15 as stated: a change of the repository scope while a token source holds
\* a valid token leaves the cache as it is and sends nothing; Token() goes on
\* returning the cached token, without a request, while it is valid; and the
\* exchange that replaces the token once it is stale carries the scope the
\* Config then holds.
C15_ScopeAppliedByNextExchange ==
    [][/\ \A s \in Sources :
             ScopeChangesUnderValid(s) => cache' = cache /\ posts' = posts /\ req' = req
       /\ \A c \in Callers :
             /\ (Checks(c) /\ Valid(cache[call[c].src], now)) => ReturnsCached(c)
             /\ (/\ pc[c] = "lock"
                 /\ pc'[c] = "inflight"
                 /\ cache[call[c].src] # NoToken)
                => DecodeRepositories(req'[c].Body) = repos]_vars

\* The claim set a signing at time t is to carry: the issuer, and the expiry
\* t + Expires when Expires > 0, none (0) otherwise
FreshClaims(t) ==
    [Iss |-> conf.AppID, Exp |-> IF conf.Expires > 0 THEN t + conf.Expires ELSE 0]

\* The last value of a header
Last(values) == values[Len(values)]

\* C16: the assertion every exchange sends, and the one every App round trip
\* adds to its request, is signed in that step over a claim set with issuer
\* AppID and, when Expires > 0, the expiry (time of the step) + Expires, no
\* expiry when Expires <= 0.
C16_FreshClaimSet ==
    [][/\ \A c \in Callers :
             (pc[c] = "lock" /\ pc'[c] = "inflight") =>
                 /\ req'[c].Authorization[1].scheme = "Bearer"
                 /\ req'[c].Authorization[1].cred.claims = FreshClaims(now)
       /\ (appOut' # appOut /\ appOut'.sent # NoReq) =>
             /\ Last(appOut'.sent.Authorization).scheme = "Bearer"
             /\ Last(appOut'.sent.Authorization).cred.claims = FreshClaims(now)]_vars

C16_Witness ==
    /\ conf.Expires = TenMinutes
    /\ appOut.sent # NoReq
    /\ appOut.at > 1
    /\ Last(appOut.sent.Authorization).cred.claims.Exp = appOut.at + TenMinutes
    /\ pc[1] = "inflight"
    /\ now > appOut.at
    /\ req[1].Authorization[1].cred.claims.Exp = now + TenMinutes

\* An App round trip on request r happens in this step
AppTrip(r) == appReq'[r] # appReq[r]

\* C17: a Token() call sends at most one POST: one request per step that sends
\* any, none by a call that has sent one, and a call whose request is out or
\* that has its outcome only moves on towards its return, a failed one with
\* its error and no token and without another request; an App round trip
\* signs and dispatches at most once: it adds at most one Authorization value
\* to its request, touches no other request, and a dispatch that failed is
\* returned as it is.
C17_NoRetries ==
    [][/\ posts' \in {posts, posts + 1}
       /\ \A c \in Callers :
             /\ (pc[c] = "lock" /\ pc'[c] = "inflight")
                => ~call[c].did /\ posts' = posts + 1
             /\ pc[c] = "inflight" => pc'[c] \in {"inflight", "ret"}
             /\ pc[c] = "ret" =>
                  /\ pc'[c] \in {"ret", "done", "idle"}
                  /\ posts' = posts \/ pc'[c] = "ret"
                  /\ pc'[c] # "idle" => result'[c] = result[c]
             /\ FailsExchange(c) => result'[c].tok = NoToken /\ posts' = posts
       /\ \A r \in Reqs :
             /\ Len(appReq'[r].Authorization) <= Len(appReq[r].Authorization) + 1
             /\ Len(appReq'[r].Accept) <= Len(appReq[r].Accept) + 1
             /\ AppTrip(r) =>
                  /\ \A q \in Reqs \ {r} : ~AppTrip(q)
                  /\ appOut'.req = r
                  /\ appOut'.at = now
                  /\ appOut'.sent \in {NoReq, appReq'[r]}]_vars

C17_Witness ==
    /\ pc[1] = "ret"
    /\ call[1].did
    /\ call[1].got = NoAnswer
    /\ result[1].err # NoErr
    /\ posts = 1
    /\ appOut.req = 1
    /\ appOut.err = DoError
    /\ Len(appReq[1].Authorization) = 1

\* The body does not decode into the token fields: it is no JSON object (nor
\* null), or one of the three fields holds a value that is no string (nor null)
Undecodable(b) ==
    \/ b.kind \notin {"object", "null"}
    \/ /\ b.kind = "object"
       /\ \E k \in {"token", "expires_at", "TokenType"} :
             b.fields[k].j \notin {"absent", "null", "string"}

\* "expires_at" is there and is not an RFC3339 time
ExpiryPresentInvalid(b) ==
    /\ b.kind = "object"
    /\ b.fields["expires_at"] # Absent
    /\ ~(b.fields["expires_at"].j = "string" /\ b.fields["expires_at"].s.txt = "rfc3339")

\* "expires_at" is a string, not empty, that is not an RFC3339 time
ExpiryStringInvalid(b) ==
    /\ b.kind = "object"
    /\ b.fields["expires_at"].j = "string"
    /\ b.fields["expires_at"].s.txt = "other"

\* Caller c holds the outcome of an exchange answered 2xx with a body read
\* whole
Answered2xx(c) ==
    /\ Answered(c)
    /\ call[c].got.readErr = NoErr
    /\ call[c].got.StatusCode \in 200..299
    /\ call[c].got.Body.size <= LimitBytes

\* The call of c returned an error and no token, and the cache holds no token
\* of its exchange
FailedUncached(c) ==
    /\ result[c].err # NoErr
    /\ result[c].tok = NoToken
    /\ \/ cache[call[c].src] = NoToken
       \/ cache[call[c].src].AccessToken # TokenValue(call[c].post)

\* C18 as stated: on a 2xx response, a body that does not decode into the
\* token fields, or whose expires_at is present and is no RFC3339 time, gives
\* an error, no token and nothing cached; any other body gives no error,
\* whatever its further fields hold.
C18_StrictWhenPresent ==
    \A c \in Callers :
        Answered2xx(c) =>
            LET b == call[c].got.Body IN
            IF Undecodable(b) \/ ExpiryPresentInvalid(b)
            THEN FailedUncached(c)
            ELSE result[c].err = NoErr

\* C18 (amended): the same with the expires_at test narrowed to a non-empty
\* string that is no RFC3339 time; an expires_at that is null or "" is taken
\* as absent.
C18_StrictRequiredLenientExtras ==
    \A c \in Callers :
        Answered2xx(c) =>
            LET b == call[c].got.Body IN
            IF Undecodable(b) \/ ExpiryStringInvalid(b)
            THEN FailedUncached(c)
            ELSE /\ result[c].err = NoErr
                 /\ ExpiryPresentInvalid(b) => result[c].tok.Expiry = ZeroTime

C18_Witness ==
    \E c \in Callers :
        /\ Answered2xx(c)
        /\ call[c].got.Body.fields["token"] = JStr(TokenValue(1))
        /\ call[c].got.Body.fields["expires_at"] = JStr(BadTime)
        /\ result[c].err = FetchError([type |-> "time.ParseError"])
        /\ result[c].tok = NoToken
        /\ cache[Main] = NoToken

\* C19: an App round trip whose signing fails returns the signing error and
\* hands nothing to the underlying transport; and whatever the underlying
\* transport receives carries, as the last Authorization value, an assertion
\* signed with the App's key.
C19_NeverUnsigned ==
    appOut.req # 0 =>
        LET p == Payload(conf, appOut.at) IN
        /\ p.err # NoErr => appOut.sent = NoReq /\ appOut.err = p.err
        /\ appOut.sent # NoReq =>
             /\ p.err = NoErr
             /\ Last(appOut.sent.Authorization) = Bearer(p.payload)
             /\ Last(appOut.sent.Authorization).cred # NoPayload
             /\ Last(appOut.sent.Authorization).cred.signedBy = conf.PrivateKey

C19_Witness ==
    /\ appOut.req # 0
    /\ conf.PrivateKey = "invalid"
    /\ appOut.sent = NoReq
    /\ appOut.err = [type |-> "SigningError"]
    /\ Len(appReq[appOut.req].Accept) = 2
    /\ appReq[appOut.req].Authorization = <<>>

\* Caller c starts a Permissions or RepositorySelection call in this step
StartsInstCall(c) ==
    /\ pc[c] = "idle"
    /\ pc'[c] = "lock"
    /\ call'[c].op \in {"Permissions", "RepositorySelection"}

\* C20: the token source a Permissions or RepositorySelection call makes
\* starts without a token and the call goes through an exchange of its own,
\* whatever the other caches hold; so does every Token() call on a token
\* source that holds no token; an exchange changes no cache but its own; and a
\* cache only ever changes to empty, when its token source is made, or to the
\* token an exchange of its own source returned.
C20_CachePerSource ==
    [][/\ \A c \in Callers :
             /\ StartsInstCall(c) =>
                  /\ cache'[call'[c].src] = NoToken
                  /\ \A t \in Sources \ {call'[c].src} : cache'[t] = cache[t]
             /\ (/\ Checks(c)
                 /\ \/ call[c].op \in {"Permissions", "RepositorySelection"}
                    \/ cache[call[c].src] = NoToken)
                => StartsExchange(c)
             /\ (pc[c] = "inflight" /\ pc'[c] = "ret")
                => \A t \in Sources \ {call[c].src} : cache'[t] = cache[t]
       /\ \A s \in Sources :
             cache'[s] # cache[s] =>
                 \/ cache'[s] = NoToken
                 \/ \E c \in Callers :
                       /\ call[c].src = s
                       /\ Refreshed(c)
                       /\ cache'[s] = result'[c].tok]_vars

C20_Witness ==
    \E c \in Callers :
        /\ pc[c] = "done"
        /\ call[c].op = "Permissions"
        /\ call[c].src # Main
        /\ call[c].phase = "empty"
        /\ call[c].did
        /\ call[c].post = 2
        /\ result[c].err = NoErr
        /\ Valid(cache[Main], now)
        /\ cache[Main].AccessToken = TokenValue(1)
        /\ cache[call[c].src].AccessToken = TokenValue(2)

\* C21 as stated: a token that a Token() call returns without error has, as
\* the call returns, a value that is not empty and no expiry or an expiry
\* after now, whether it comes from the cache or from the exchange of that
\* call.
C21_ReturnedTokenUsable ==
    [][\A c \in Callers :
          (pc[c] \in {"lock", "inflight"} /\ pc'[c] = "ret" /\ result'[c].err = NoErr)
          => /\ result'[c].tok # NoToken
             /\ result'[c].tok.AccessToken # ""
             /\ \/ result'[c].tok.Expiry = ZeroTime
                \/ now' < result'[c].tok.Expiry]_vars

====
